---- MODULE Spec2Model ----
(***************************************************************************)
(* A model of the Go binding to libexpect (package expect, src/expect.go). *)
(*                                                                         *)
(* The binding is thin: Spawn wraps C.exp_spawnv, Expectl validates the    *)
(* patterns, converts them to exp_case entries and wraps C.exp_expectv,    *)
(* KillChild signals the recorded pid.  The matching engine itself is the  *)
(* C library the binding links against; it is modelled here by the         *)
(* behaviour of exp_spawnv / exp_expectv that the binding relies on (the   *)
(* libexpect manual the source refers to): a per-descriptor buffer that    *)
(* keeps what follows the previous match, a read-and-match loop that tries *)
(* the cases in list order after every read, and a timeout taken from the  *)
(* global exp_timeout.  The operating system (descriptors, the children    *)
(* and their pty output) is the environment.                               *)
(*                                                                         *)
(* Bytes of child output are tagged <<pid, index, char>> so that a         *)
(* property can say which child emitted a byte and in which position.      *)
(***************************************************************************)
EXTENDS Integers, Sequences, FiniteSets, TLC

(***************************************************************************)
(* Bounds of the model.                                                    *)
(***************************************************************************)
\* longest pattern list passed to one Expectl call
MaxPatterns == 2
\* exp_match_max of the library, scaled down: the buffer holds 2*MatchMax bytes
MatchMax == 2
\* largest timeout (seconds) passed to SetTimeout
MaxTimeout == 1

\* the children that are ever spawned; also names the Process values
Sessions == {1, 2}
\* the goroutines that may be inside Spawn at the same time
Spawners == {1, 2}

(***************************************************************************)
(* Constants of src/expect.go.                                             *)
(***************************************************************************)
_End == 0
Glob == 1
Exact == 2
RegExp == 3
Compiled == 4
Null == 5

ERROR == -1
TIMEOUT == -2
FULLBUFFER == -5
EOF == -11

\* an arbitrary Type outside the enumeration, as used by TestBadPattern
BadType == 44

(***************************************************************************)
(* Pattern.Value is a Go uint (64 bits); C.int is 32 bits.  A Value is     *)
(* kept as three words, value = top * 2^32 + hi * 2^16 + lo, so that the   *)
(* real widths are kept although the checker's integers are 32 bits wide.  *)
(***************************************************************************)
Word16 == 65536
HalfWord16 == 32768

UintV(top, hi, lo) == [top |-> top, hi |-> hi, lo |-> lo]

\* the Value as a mathematical integer, where it is small enough to write
FitsInt(v) == v.top = 0 /\ v.hi < HalfWord16
AsInt(v) == v.hi * Word16 + v.lo

\* C.int(v.Value): keep the low 32 bits, read them as two's complement
CInt(v) ==
    IF v.hi < HalfWord16
    THEN v.hi * Word16 + v.lo
    ELSE (v.hi - Word16) * Word16 + v.lo

(***************************************************************************)
(* Matching, as exp_expectv does it for the three supported case types.    *)
(* A text is a sequence of one-character strings.  Each matcher returns    *)
(* <<start, end>> (offsets into the buffer, end exclusive) or NoMatch.     *)
(***************************************************************************)
NoMatch == <<-1, -1>>

Min(S) == CHOOSE x \in S : \A y \in S : x <= y
Max(S) == CHOOSE x \in S : \A y \in S : x >= y

Drop(s, n) == SubSeq(s, n + 1, Len(s))
Take(s, n) == SubSeq(s, 1, n)

\* exp_exact: strstr(buffer, pattern), the first occurrence
ExactMatch(s, pt) ==
    LET starts == {i \in 0..(Len(s) - Len(pt)) : SubSeq(s, i + 1, i + Len(pt)) = pt}
    IN  IF starts = {} THEN NoMatch ELSE <<Min(starts), Min(starts) + Len(pt)>>

\* Exp_StringMatch2: the number of characters of s the glob pt matches from
\* the start of s, or -1.  "*" takes the longest run that lets the rest match.
RECURSIVE StringMatch2(_, _)
StringMatch2(s, pt) ==
    IF pt = <<>> THEN 0
    ELSE IF Head(pt) = "*"
    THEN IF Tail(pt) = <<>> THEN Len(s)
         ELSE LET ok == {h \in 0..Len(s) : StringMatch2(Drop(s, h), Tail(pt)) # -1}
              IN  IF ok = {} THEN -1
                  ELSE Max(ok) + StringMatch2(Drop(s, Max(ok)), Tail(pt))
    ELSE IF s = <<>> THEN -1
    ELSE IF Head(pt) = "?" \/ Head(pt) = Head(s)
    THEN LET r == StringMatch2(Tail(s), Tail(pt))
         IN  IF r = -1 THEN -1 ELSE r + 1
    ELSE -1

\* Exp_StringMatch: try the glob at every start, first start wins; a pattern
\* that begins with "*" is tried at the start of the buffer only
GlobMatch(s, pt) ==
    LET first == StringMatch2(s, pt)
        later == {i \in 1..(Len(s) - 1) : StringMatch2(Drop(s, i), pt) # -1}
    IN  IF first # -1 THEN <<0, first>>
        ELSE IF pt # <<>> /\ Head(pt) = "*" THEN NoMatch
        ELSE IF later = {} THEN NoMatch
        ELSE <<Min(later), Min(later) + StringMatch2(Drop(s, Min(later)), pt)>>

\* exp_regexp, for expressions made of literal characters and "." : the
\* leftmost place where the expression matches
RegAt(s, i, pt) ==
    /\ i + Len(pt) <= Len(s)
    /\ \A k \in 1..Len(pt) : pt[k] = "." \/ pt[k] = s[i + k]
RegExpMatch(s, pt) ==
    LET starts == {i \in 0..Len(s) : RegAt(s, i, pt)}
    IN  IF starts = {} THEN NoMatch ELSE <<Min(starts), Min(starts) + Len(pt)>>

\* one case of the list against the buffer
CaseMatch(s, ec) ==
    IF ec.type = Glob THEN GlobMatch(s, ec.pattern)
    ELSE IF ec.type = Exact THEN ExactMatch(s, ec.pattern)
    ELSE RegExpMatch(s, ec.pattern)


(***************************************************************************)
(* Inputs of the model.                                                    *)
(***************************************************************************)
Pat(t, txt, v) == [Type |-> t, Pattern |-> txt, Value |-> v]

\* what a child may write in total
ScriptSet == {<<"b", "a", "b">>}

\* well-formed patterns: small Values on the three kinds, and the corner
\* Values of the 64-bit field on one Exact pattern
OrderPatterns ==
    { Pat(Exact, <<"a">>, UintV(0, 0, 1)),
      Pat(Exact, <<"b">>, UintV(0, 0, 2)),
      Pat(Glob, <<"b", "?">>, UintV(0, 0, 3)),
      Pat(RegExp, <<".", "a">>, UintV(0, 0, 0)) }
ValuePatterns ==
    { Pat(Exact, <<"b">>, UintV(0, HalfWord16 - 1, Word16 - 1)),
      Pat(Exact, <<"b">>, UintV(0, Word16 - 1, Word16 - 1)),
      Pat(Exact, <<"b">>, UintV(1, 0, 1)) }
GoodPatterns == OrderPatterns \cup ValuePatterns
\* patterns whose Type is not Glob, Exact or RegExp
BadPatterns ==
    { Pat(BadType, <<"b">>, UintV(0, 0, 2)),
      Pat(Compiled, <<"a">>, UintV(0, 0, 1)),
      Pat(Null, <<>>, UintV(0, 0, 0)),
      Pat(_End, <<"a">>, UintV(0, 0, 3)) }
PatternSet == GoodPatterns \cup BadPatterns

SeqsUpTo(S, n) == UNION {[1..k -> S] : k \in 1..n}
Ea1 == Pat(Exact, <<"a">>, UintV(0, 0, 1))
Eb2 == Pat(Exact, <<"b">>, UintV(0, 0, 2))
\* the argument lists of Expectl, one session: every list of the small-Value
\* patterns, each corner Value alone, and lists with badly typed patterns in
\* every position
PatternLists ==
    SeqsUpTo(OrderPatterns, MaxPatterns)
    \cup {<<v>> : v \in ValuePatterns}
    \cup {<<b>> : b \in BadPatterns}
    \cup {<<Ea1, b>> : b \in BadPatterns}
    \cup {<<b, Ea1>> : b \in BadPatterns}
    \cup {<<Pat(Null, <<>>, UintV(0, 0, 0)), Pat(BadType, <<"b">>, UintV(0, 0, 2))>>}
\* the argument list of Expectl where several sessions run together
FewLists == { <<Eb2, Ea1>> }

\* a child that writes more than the buffer holds, and lists whose text is
\* not in what it writes, or is longer than MatchMax
FullScripts == {<<"b", "b", "b", "a", "b">>}
FullLists ==
    { <<Pat(Exact, <<"c">>, UintV(0, 0, 1))>>,
      <<Pat(Exact, <<"b", "b", "a", "b">>, UintV(0, 0, 2))>> }

LiveLists == FullLists \cup {<<Pat(Exact, <<"b">>, UintV(0, Word16 - 1, Word16 - 1))>>}

\* what exp_spawnv may leave in errno when it fails
SpawnErrnos == {"ENOENT", "EACCES"}

\* arguments of SetTimeout: -1 waits for ever, a positive value is seconds
TimeoutSet == {-1} \cup (1..MaxTimeout)

Pids == Sessions
Fds == 0..(Cardinality(Sessions) - 1)
ProcIds == Sessions

VARIABLES
    exp_timeout,   \* C.exp_timeout, the library's global timeout
    lastSet,       \* the argument of the most recent SetTimeout (0 before any)
    exp_pid,       \* C.exp_pid, the library's global: pid of the last child forked
    nextPid,       \* operating system: number of children created so far
    fdtab,         \* operating system: descriptor -> pid of the child whose pty
                   \* it is open on, 0 when the descriptor is closed
    child,         \* operating system: pid -> state, output still to write,
                   \* output written and not yet read, count of bytes written
    fs,            \* the library's per-descriptor buffers
    nproc,         \* number of Process values returned by successful Spawns
    proc,          \* the Process values: Fd, Pid, File
    spawner,       \* goroutines inside Spawn
    lastSpawn,     \* what the most recent Spawn returned
    call,          \* per Process, the Expectl call in flight
    killed,        \* per Process, whether KillChild has been called on it
    hw,            \* per Process and child, the index of the last byte of that
                   \* child's output that a match of the Process has consumed
    last           \* what the most recent Expectl return was

vars == <<exp_timeout, lastSet, exp_pid, nextPid, fdtab, child, fs, nproc, proc,
          spawner, lastSpawn, call, killed, hw, last>>

NoChild == [st |-> "none", script |-> <<>>, pty |-> <<>>, n |-> 0]
\* own is not a field of Process: the child the Spawn call that returned the
\* Process created, kept to state the properties
NoProc == [Fd |-> -1, Pid |-> 0, File |-> "nil", own |-> 0]
NoBuf == [valid |-> FALSE, buffer |-> <<>>, match_end |-> 0]
Idle == [pc |-> "idle"]
NoReturn == [proc |-> 0]
NoSpawn == [done |-> FALSE]

\* the *ExpectError results: nil, a system error, a badly specified pattern
NilErr == [kind |-> "nil"]
ErrnoErr(errno) == [kind |-> "Err", Err |-> errno]
PatternErr(v) == [kind |-> "Pattern", Pattern |-> v]

Init ==
    /\ exp_timeout = MaxTimeout   \* the library's default, a positive number of seconds
    /\ lastSet = 0
    /\ exp_pid = 0
    /\ nextPid = 0
    /\ fdtab = [f \in Fds |-> 0]
    /\ child = [c \in Pids |-> NoChild]
    /\ fs = [f \in Fds |-> NoBuf]
    /\ nproc = 0
    /\ proc = [p \in ProcIds |-> NoProc]
    /\ spawner = [t \in Spawners |-> Idle]
    /\ lastSpawn = NoSpawn
    /\ call = [p \in ProcIds |-> Idle]
    /\ killed = [p \in ProcIds |-> FALSE]
    /\ hw = [p \in ProcIds |-> [c \in Pids |-> 0]]
    /\ last = NoReturn

(***************************************************************************)
(* SetTimeout                                                              *)
(***************************************************************************)
LostSetTimeoutValue(timeout) == exp_timeout
BadSetTimeoutValue(timeout) == IF timeout > 0 THEN timeout - 1 ELSE timeout
SetTimeoutValue(timeout) == timeout

\* No goroutine is between the two steps of Spawn.  Only Spawn steps are
\* interleaved with a Spawn in progress: no other operation reads or writes
\* exp_pid or the Process that is about to be returned.
NoSpawnInProgress == \A t \in Spawners : spawner[t].pc = "idle"

SetTimeout(timeout) ==
    /\ NoSpawnInProgress
    /\ exp_timeout' = SetTimeoutValue(timeout)
    /\ lastSet' = timeout
    /\ UNCHANGED <<exp_pid, nextPid, fdtab, child, fs, nproc, proc, spawner, call, killed, hw>>
    /\ last' = NoReturn
    /\ lastSpawn' = NoSpawn


(***************************************************************************)
(* Spawn.  The call of C.exp_spawnv and the later read of C.exp_pid are    *)
(* two steps: the binding takes no lock, so another goroutine's Spawn may  *)
(* run between them.                                                       *)
(***************************************************************************)
\* open() hands out the lowest descriptor that is not in use
LowestFreeFd == Min({f \in Fds : fdtab[f] = 0})

\* fd, errno := C.exp_spawnv(cfile, &cargv[0]) : the child is forked on a new
\* pty and exp_pid is set, or -1 is returned with errno set
SpawnCallOk(t, script) ==
    /\ spawner[t].pc = "idle"
    /\ nextPid + 1 \in Pids
    /\ \E f \in Fds : fdtab[f] = 0
    /\ LET fd == LowestFreeFd
           pid == nextPid + 1
       IN  /\ nextPid' = pid
           /\ exp_pid' = pid
           /\ fdtab' = [fdtab EXCEPT ![fd] = pid]
           /\ child' = [child EXCEPT ![pid] =
                           [st |-> "running", script |-> script, pty |-> <<>>, n |-> 0]]
           /\ spawner' = [spawner EXCEPT ![t] =
                           [pc |-> "called", fd |-> fd, forked |-> pid]]
    /\ UNCHANGED <<exp_timeout, lastSet, fs, nproc, proc, call, killed, hw>>
    /\ last' = NoReturn
    /\ lastSpawn' = NoSpawn

\* the Process and error that Spawn returns for the outcome of exp_spawnv
SpawnResult(fd, errno, pid) ==
    IF errno # "nil"
    THEN [p |-> [Fd |-> -1, Pid |-> 0, File |-> "nil"], e |-> ErrnoErr(errno)]
    ELSE [p |-> [Fd |-> fd, Pid |-> pid, File |-> "open"], e |-> NilErr]

SpawnReturn(t) ==
    /\ spawner[t].pc = "called"
    /\ LET r == SpawnResult(spawner[t].fd, "nil", exp_pid)
       IN  /\ lastSpawn' = [done |-> TRUE, p |-> r.p, e |-> r.e,
                            fd |-> spawner[t].fd, forked |-> spawner[t].forked]
           /\ nproc' = nproc + 1
           /\ proc' = [proc EXCEPT ![nproc + 1] =
                         [Fd |-> r.p.Fd, Pid |-> r.p.Pid, File |-> r.p.File,
                          own |-> spawner[t].forked]]
    /\ spawner' = [spawner EXCEPT ![t] = Idle]
    /\ UNCHANGED <<exp_timeout, lastSet, exp_pid, nextPid, fdtab, child, fs, call, killed, hw>>
    /\ last' = NoReturn

\* exp_spawnv fails: -1 with errno set, no descriptor and no child are left.
\* Spawn returns without reading exp_pid, so the call and the return are one step.
SpawnFail(t, errno) ==
    /\ spawner[t].pc = "idle"
    /\ LET r == SpawnResult(-1, errno, exp_pid)
       IN  lastSpawn' = [done |-> TRUE, p |-> r.p, e |-> r.e, fd |-> -1, forked |-> 0]
    /\ UNCHANGED <<exp_timeout, lastSet, exp_pid, nextPid, fdtab, child, fs, nproc, proc, spawner, call, killed, hw>>
    /\ last' = NoReturn

(***************************************************************************)
(* The children and the caller's other operations on a Process.            *)
(***************************************************************************)
\* the tagged bytes of a script written by child c after n earlier bytes
Tagged(c, n, script) == [i \in 1..Len(script) |-> <<c, n + i, script[i]>>]

\* a running child writes its output to its pty (how the output is cut into
\* pieces is decided by the reads)
Emit(c) ==
    /\ NoSpawnInProgress
    /\ child[c].st = "running"
    /\ child[c].script # <<>>
    /\ child' = [child EXCEPT ![c] =
                    [@ EXCEPT !.script = <<>>,
                              !.pty = @ \o Tagged(c, child[c].n, child[c].script),
                              !.n = @ + Len(child[c].script)]]
    /\ UNCHANGED <<exp_timeout, lastSet, exp_pid, nextPid, fdtab, fs, nproc, proc, spawner, call, killed, hw>>
    /\ last' = NoReturn
    /\ lastSpawn' = NoSpawn

\* a child that has written all its output exits
Exit(c) ==
    /\ NoSpawnInProgress
    /\ child[c].st = "running"
    /\ child[c].script = <<>>
    /\ child' = [child EXCEPT ![c].st = "dead"]
    /\ UNCHANGED <<exp_timeout, lastSet, exp_pid, nextPid, fdtab, fs, nproc, proc, spawner, call, killed, hw>>
    /\ last' = NoReturn
    /\ lastSpawn' = NoSpawn

\* p.File.Close(): closes the descriptor the File was made from; the pty and
\* what was still in it are gone.  Fd and Pid of the Process stay as they were.
FileClose(p) ==
    /\ NoSpawnInProgress
    /\ p <= nproc
    /\ proc[p].File = "open"
    /\ proc' = [proc EXCEPT ![p].File = "closed"]
    /\ LET c == fdtab[proc[p].Fd]
       IN  /\ fdtab' = [fdtab EXCEPT ![proc[p].Fd] = 0]
           /\ child' = [child EXCEPT ![c] = [@ EXCEPT !.script = <<>>, !.pty = <<>>]]
    /\ UNCHANGED <<exp_timeout, lastSet, exp_pid, nextPid, fs, nproc, spawner, call, killed, hw>>
    /\ last' = NoReturn
    /\ lastSpawn' = NoSpawn

\* p.KillChild(): os.FindProcess(p.Pid) and Kill.  The process with that pid
\* writes no more; what it wrote before stays readable.  (Killing a process
\* that is already gone changes nothing and is left out.)
KillTarget(p) == proc[p].Pid
HarshKillChild(p) ==
    /\ NoSpawnInProgress
    /\ p <= nproc
    /\ ~killed[p]
    /\ KillTarget(p) \in Pids
    /\ child[KillTarget(p)].st = "running"
    /\ killed' = [killed EXCEPT ![p] = TRUE]
    /\ child' = [child EXCEPT ![KillTarget(p)] =
                    [@ EXCEPT !.st = "dead", !.script = <<>>, !.pty = <<>>]]
    /\ UNCHANGED <<exp_timeout, lastSet, exp_pid, nextPid, fdtab, fs, nproc, proc, spawner, call, hw>>
    /\ last' = NoReturn
    /\ lastSpawn' = NoSpawn
KillChild(p) ==
    /\ NoSpawnInProgress
    /\ p <= nproc
    /\ ~killed[p]
    /\ KillTarget(p) \in Pids
    /\ child[KillTarget(p)].st = "running"
    /\ killed' = [killed EXCEPT ![p] = TRUE]
    /\ child' = [child EXCEPT ![KillTarget(p)] = [@ EXCEPT !.st = "dead", !.script = <<>>]]
    /\ UNCHANGED <<exp_timeout, lastSet, exp_pid, nextPid, fdtab, fs, nproc, proc, spawner, call, hw>>
    /\ last' = NoReturn
    /\ lastSpawn' = NoSpawn

(***************************************************************************)
(* Expectl: the binding's part.                                            *)
(***************************************************************************)
\* the switch on v.Type of the validation loop
ValidType(t) == t = Glob \/ t = Exact \/ t = RegExp

\* index of the pattern the validation loop returns on, 0 when it finds none
BadFirstBad(patterns) ==
    IF ValidType(patterns[1].Type) THEN 0 ELSE 1
FirstBad(patterns) ==
    LET bad == {i \in 1..Len(patterns) : ~ValidType(patterns[i].Type)}
    IN  IF bad = {} THEN 0 ELSE Min(bad)

\* ecases[i] = C.struct_exp_case{C.CString(v.Pattern), nil, uint32(v.Type),
\* C.int(v.Value)}, in the order of the arguments; the exp_end entry that
\* closes the list is implicit in the length
BadMakeEcases(patterns) ==
    [i \in 1..Len(patterns) |->
        [pattern |-> patterns[Len(patterns) + 1 - i].Pattern,
         type |-> patterns[Len(patterns) + 1 - i].Type,
         value |-> CInt(patterns[Len(patterns) + 1 - i].Value)]]
MakeEcases(patterns) ==
    [i \in 1..Len(patterns) |->
        [pattern |-> patterns[i].Pattern,
         type |-> patterns[i].Type,
         value |-> CInt(patterns[i].Value)]]

\* if errno != nil { return ERROR, &ExpectError{Err: errno} }
\* return int(value), nil
GoReturn(value, errno) ==
    IF errno # "nil" THEN [code |-> ERROR, e |-> ErrnoErr(errno)]
    ELSE [code |-> value, e |-> NilErr]

(***************************************************************************)
(* Expectl: the part done inside C.exp_expectv.                            *)
(***************************************************************************)
\* the buffer of a descriptor holds 2 * exp_match_max bytes
BufSiz == 2 * MatchMax

\* the characters of a buffer of tagged bytes
Chars(buf) == [i \in 1..Len(buf) |-> buf[i][3]]

\* on entry, what follows the end of the previous match moves to the front
BadCompact(f) == f.buffer
Compact(f) == Drop(f.buffer, f.match_end)

\* when the buffer is full its second half is copied over the first
Shift(buf) == IF Len(buf) = BufSiz THEN Drop(buf, BufSiz \div 2) ELSE buf

\* the cases are tried in list order against the whole buffer; the index of
\* the first that matches, 0 when none does
Winner(ecases, s) ==
    LET hit == {i \in 1..Len(ecases) : CaseMatch(s, ecases[i]) # NoMatch}
    IN  IF hit = {} THEN 0 ELSE Min(hit)

\* the stream a descriptor is open on is at end of file: the child is gone
\* and everything it wrote has been read
AtEof(fd) ==
    /\ fdtab[fd] # 0
    /\ child[fdtab[fd]].st = "dead"
    /\ child[fdtab[fd]].pty = <<>>

\* a read of the descriptor would block
Blocked(fd) ==
    /\ fdtab[fd] # 0
    /\ child[fdtab[fd]].st = "running"
    /\ child[fdtab[fd]].pty = <<>>

\* the caller's stream is open and its child can still write
StreamOpen(p) ==
    /\ proc[p].File = "open"
    /\ fdtab[proc[p].Fd] # 0
    /\ child[fdtab[proc[p].Fd]].st = "running"

\* the record of a return of Expectl on Process p; c is the call
Return(p, c, r, idx, buf, m) ==
    [proc |-> p, code |-> r.code, e |-> r.e, idx |-> idx, pats |-> c.pats,
     buf |-> buf, m |-> m, prev |-> hw[p], set0 |-> c.set0, t0 |-> c.t0,
     waited |-> c.t0 - c.remtime, fileAtCall |-> c.fileAtCall,
     killedAtCall |-> c.killedAtCall, open |-> StreamOpen(p)]

\* hw[p] after a match m in buf: everything up to the end of the match is gone
Consumed(p, buf, m) ==
    [c \in Pids |->
        Max({hw[p][c]} \cup {buf[k][2] : k \in {j \in 1..m[2] : buf[j][1] = c}})]

ExpectlCall(p, patterns) ==
    /\ NoSpawnInProgress
    /\ p <= nproc
    /\ call[p].pc = "idle"
    /\ \A q \in ProcIds : call[q].pc = "idle"
    /\ LET c == [pats |-> patterns, set0 |-> lastSet, t0 |-> exp_timeout,
                 remtime |-> exp_timeout, fileAtCall |-> proc[p].File,
                 killedAtCall |-> killed[p]]
           bad == FirstBad(patterns)
           fd == proc[p].Fd
           ecases == MakeEcases(patterns)
           buf == Shift(Compact(fs[fd]))
           w == Winner(ecases, Chars(buf))
           m == CaseMatch(Chars(buf), ecases[w])
       IN  IF bad # 0
           THEN /\ last' = Return(p, c, [code |-> ERROR, e |-> PatternErr(patterns[bad])],
                                  0, <<>>, NoMatch)
                /\ UNCHANGED <<fs, call, killed, hw>>
           ELSE IF w # 0
           THEN \* the pattern is already in the buffer
                /\ fs' = [fs EXCEPT ![fd] = [valid |-> TRUE, buffer |-> buf, match_end |-> m[2]]]
                /\ last' = Return(p, c, GoReturn(ecases[w].value, "nil"), w, buf, m)
                /\ hw' = [hw EXCEPT ![p] = Consumed(p, buf, m)]
                /\ UNCHANGED call
           ELSE /\ fs' = [fs EXCEPT ![fd] = [valid |-> TRUE, buffer |-> buf, match_end |-> 0]]
                /\ call' = [call EXCEPT ![p] = [pc |-> "reading"] @@ c]
                /\ UNCHANGED hw
                /\ last' = NoReturn
    /\ UNCHANGED <<exp_timeout, lastSet, exp_pid, nextPid, fdtab, child, nproc, proc, spawner, killed>>
    /\ lastSpawn' = NoSpawn

\* read() returns n bytes; the cases are tried on the buffer
ExpectlRead(p, n) ==
    /\ NoSpawnInProgress
    /\ call[p].pc = "reading"
    /\ LET fd == proc[p].Fd
           c == fdtab[fd]
           old == Shift(fs[fd].buffer)
           ecases == MakeEcases(call[p].pats)
       IN  /\ c # 0
           /\ n \in 1..Len(child[c].pty)
           /\ n <= BufSiz - Len(old)
           /\ LET buf == old \o Take(child[c].pty, n)
                  w == Winner(ecases, Chars(buf))
                  m == CaseMatch(Chars(buf), ecases[w])
              IN  /\ child' = [child EXCEPT ![c].pty = Drop(@, n)]
                  /\ IF w # 0
                     THEN /\ fs' = [fs EXCEPT ![fd] =
                                      [valid |-> TRUE, buffer |-> buf, match_end |-> m[2]]]
                          /\ last' = Return(p, call[p],
                                            GoReturn(ecases[w].value, "nil"), w, buf, m)
                          /\ hw' = [hw EXCEPT ![p] = Consumed(p, buf, m)]
                          /\ call' = [call EXCEPT ![p] = Idle]
                     ELSE /\ fs' = [fs EXCEPT ![fd] =
                                      [valid |-> TRUE, buffer |-> buf, match_end |-> 0]]
                          /\ UNCHANGED <<call, killed, hw>>
                          /\ last' = NoReturn
    /\ UNCHANGED <<exp_timeout, lastSet, exp_pid, nextPid, fdtab, nproc, proc, spawner, killed>>
    /\ lastSpawn' = NoSpawn

\* read() finds the end of the stream: EXP_EOF
ExpectlEof(p) ==
    /\ NoSpawnInProgress
    /\ call[p].pc = "reading"
    /\ AtEof(proc[p].Fd)
    /\ last' = Return(p, call[p], GoReturn(EOF, "nil"), 0, fs[proc[p].Fd].buffer, NoMatch)
    /\ call' = [call EXCEPT ![p] = Idle]
    /\ UNCHANGED <<exp_timeout, lastSet, exp_pid, nextPid, fdtab, child, fs, nproc, proc, spawner, killed, hw>>
    /\ lastSpawn' = NoSpawn

\* read() fails because the descriptor is not open: -1 with errno EBADF
ExpectlBadFd(p) ==
    /\ NoSpawnInProgress
    /\ call[p].pc = "reading"
    /\ fdtab[proc[p].Fd] = 0
    /\ last' = Return(p, call[p], GoReturn(-1, "EBADF"), 0, fs[proc[p].Fd].buffer, NoMatch)
    /\ call' = [call EXCEPT ![p] = Idle]
    /\ UNCHANGED <<exp_timeout, lastSet, exp_pid, nextPid, fdtab, child, fs, nproc, proc, spawner, killed, hw>>
    /\ lastSpawn' = NoSpawn

\* the alarm set for the remaining time goes off: EXP_TIMEOUT
ExpectlTimeout(p) ==
    /\ NoSpawnInProgress
    /\ call[p].pc = "reading"
    /\ call[p].remtime = 0
    /\ last' = Return(p, call[p], GoReturn(TIMEOUT, "nil"), 0, fs[proc[p].Fd].buffer, NoMatch)
    /\ call' = [call EXCEPT ![p] = Idle]
    /\ UNCHANGED <<exp_timeout, lastSet, exp_pid, nextPid, fdtab, child, fs, nproc, proc, spawner, killed, hw>>
    /\ lastSpawn' = NoSpawn

\* a second passes.  Reading bytes that are there takes no time: time only
\* passes while every call in flight is waiting for its child.
Tick ==
    /\ NoSpawnInProgress
    /\ \E p \in ProcIds : call[p].pc = "reading" /\ call[p].remtime > 0
    /\ \A p \in ProcIds : call[p].pc = "reading" => Blocked(proc[p].Fd)
    /\ call' = [p \in ProcIds |->
                  IF call[p].pc = "reading" /\ call[p].remtime > 0
                  THEN [call[p] EXCEPT !.remtime = @ - 1]
                  ELSE call[p]]
    /\ UNCHANGED <<exp_timeout, lastSet, exp_pid, nextPid, fdtab, child, fs, nproc, proc, spawner, killed, hw>>
    /\ last' = NoReturn
    /\ lastSpawn' = NoSpawn

Next ==
    \/ \E t \in Spawners, s \in ScriptSet : SpawnCallOk(t, s)
    \/ \E t \in Spawners : SpawnReturn(t)
    \/ \E t \in Spawners : SpawnFail(t, "ENOENT")
    \/ \E t \in TimeoutSet : SetTimeout(t)
    \/ \E c \in Pids : Emit(c)
    \/ \E p \in ProcIds : FileClose(p)
    \/ \E p \in ProcIds : KillChild(p)
    \/ \E p \in ProcIds, l \in FewLists : ExpectlCall(p, l)
    \/ \E p \in ProcIds, n \in 1..BufSiz : ExpectlRead(p, n)
    \/ \E p \in ProcIds : ExpectlEof(p)
    \/ \E p \in ProcIds : ExpectlBadFd(p)
    \/ \E p \in ProcIds : ExpectlTimeout(p)
    \/ Tick

\* every session, every goroutine; one pattern list; children end by KillChild
Spec == Init /\ [][Next]_vars

\* one session and one goroutine; every pattern list; children also end by
\* themselves
\* Spawn is called once, by goroutine 1
SpawnFirst(script) ==
    /\ nextPid = 0
    /\ SpawnCallOk(1, script)

NextOne ==
    \/ \E s \in ScriptSet : SpawnFirst(s)
    \/ SpawnReturn(1)
    \/ \E e \in SpawnErrnos : SpawnFail(1, e)
    \/ \E t \in TimeoutSet : SetTimeout(t)
    \/ Emit(1)
    \/ Exit(1)
    \/ FileClose(1)
    \/ KillChild(1)
    \/ \E l \in PatternLists : ExpectlCall(1, l)
    \/ \E n \in 1..BufSiz : ExpectlRead(1, n)
    \/ ExpectlEof(1)
    \/ ExpectlBadFd(1)
    \/ ExpectlTimeout(1)
    \/ Tick

SpecOne == Init /\ [][NextOne]_vars



\* one session whose child writes more than the buffer holds
NextFull ==
    \/ \E s \in FullScripts : SpawnFirst(s)
    \/ SpawnReturn(1)
    \/ \E t \in TimeoutSet : SetTimeout(t)
    \/ Emit(1)
    \/ Exit(1)
    \/ KillChild(1)
    \/ \E l \in FullLists : ExpectlCall(1, l)
    \/ \E n \in 1..BufSiz : ExpectlRead(1, n)
    \/ ExpectlEof(1)
    \/ ExpectlTimeout(1)
    \/ Tick

SpecFull == Init /\ [][NextFull]_vars

\* one session with every operation on it, the child of SpecFull, and the
\* lists of SpecFull and one with a corner Value
NextLive ==
    \/ \E s \in FullScripts : SpawnFirst(s)
    \/ SpawnReturn(1)
    \/ \E e \in SpawnErrnos : SpawnFail(1, e)
    \/ \E t \in TimeoutSet : SetTimeout(t)
    \/ Emit(1)
    \/ Exit(1)
    \/ FileClose(1)
    \/ KillChild(1)
    \/ \E l \in LiveLists : ExpectlCall(1, l)
    \/ \E n \in 1..BufSiz : ExpectlRead(1, n)
    \/ ExpectlEof(1)
    \/ ExpectlBadFd(1)
    \/ ExpectlTimeout(1)
    \/ Tick

\* a call in flight keeps running: the library's read returns when it can,
\* its alarm goes off, and time passes
SpecLive ==
    /\ Init
    /\ [][NextLive]_vars
    /\ WF_vars(\E n \in 1..BufSiz : ExpectlRead(1, n))
    /\ WF_vars(ExpectlEof(1))
    /\ WF_vars(ExpectlBadFd(1))
    /\ WF_vars(ExpectlTimeout(1))
    /\ WF_vars(Tick)


(***************************************************************************)
(* Properties.  `last' describes the Expectl return made by the step that  *)
(* led to the current state, `lastSpawn' the Spawn return.                 *)
(***************************************************************************)
Returned == last.proc # 0
Matched == Returned /\ last.idx # 0
WellFormed(patterns) == \A i \in 1..Len(patterns) : ValidType(patterns[i].Type)

\* pattern v, by the rule of its kind, matches somewhere in the characters s
PatMatches(v, s) == CaseMatch(s, [type |-> v.Type, pattern |-> v.Pattern]) # NoMatch
\* the list-order first pattern that matches s, 0 when none does
FirstMatching(patterns, s) ==
    LET hit == {i \in 1..Len(patterns) : PatMatches(patterns[i], s)}
    IN  IF hit = {} THEN 0 ELSE Min(hit)
\* the return code is exactly the Value
CodeIsValue(code, v) == FitsInt(v) /\ code = AsInt(v)

\* C1: when Expectl returns a match on a well-formed list, the code is the
\* Value of the lowest-index pattern that matches the unconsumed buffer at
\* that moment.
C1_LowestIndexValue ==
    (Matched /\ WellFormed(last.pats)) =>
        LET low == FirstMatching(last.pats, Chars(last.buf))
        IN  low # 0 /\ CodeIsValue(last.code, last.pats[low].Value)

\* everything the stream holds or will hold from the unconsumed buffer on:
\* the buffer, what the child has written and what it is still to write
Eventual ==
    LET c == fdtab[proc[last.proc].Fd]
    IN  Chars(last.buf) \o (IF c = 0 THEN <<>> ELSE Chars(child[c].pty) \o child[c].script)

C4_SpawnTwoOutcomes ==
    lastSpawn.done =>
        \/ /\ lastSpawn.e = NilErr
           /\ lastSpawn.fd \in Fds
           /\ lastSpawn.p.Fd = lastSpawn.fd
           /\ lastSpawn.p.File = "open"
           /\ lastSpawn.p.Pid = lastSpawn.forked
           /\ fdtab[lastSpawn.p.Fd] = lastSpawn.p.Pid
        \/ /\ lastSpawn.e # NilErr
           /\ lastSpawn.e.kind = "Err"
           /\ lastSpawn.p.Fd = -1
           /\ lastSpawn.p.File = "nil"
           /\ lastSpawn.forked = 0

\* C5: a match never includes a byte at or before the end of an earlier match
\* of the same Process.
C5_MatchesMoveForward ==
    Matched =>
        \A k \in (last.m[1] + 1)..last.m[2] :
            last.buf[k][2] > last.prev[last.buf[k][1]]

\* C5 witness: a second match on the same child's output
C5_Witness ==
    /\ Matched
    /\ last.m[2] > last.m[1]
    /\ last.prev[last.buf[last.m[2]][1]] > 0

C7_EofAfterKill ==
    (/\ Returned
     /\ WellFormed(last.pats)
     /\ last.killedAtCall
     /\ proc[last.proc].File = "open"
     /\ last.idx = 0) =>
        /\ last.code = EOF
        /\ last.e = NilErr

\* C8: a call with valid patterns made after the caller closed the stream
\* returns ERROR with the error "bad file descriptor".
C8_BadDescriptorAfterClose ==
    (/\ Returned
     /\ WellFormed(last.pats)
     /\ last.fileAtCall = "closed") =>
        /\ last.code = ERROR
        /\ last.e = ErrnoErr("EBADF")

\* C9: when a pattern wins, the code returned is exactly its Value, which is
\* not negative and so is none of ERROR, TIMEOUT, FULLBUFFER, EOF.
C9_ValueReturnedVerbatim ==
    Matched =>
        /\ CodeIsValue(last.code, last.pats[last.idx].Value)
        /\ last.code >= 0
        /\ last.code \notin {ERROR, TIMEOUT, FULLBUFFER, EOF}

\* C10: the error is non-nil exactly when the code is ERROR, and an ERROR
\* carries the offending pattern or the system error.
C10_ErrorIffErrorCode ==
    Returned =>
        /\ (last.e # NilErr) <=> (last.code = ERROR)
        /\ (last.code = ERROR) => (last.e.kind \in {"Pattern", "Err"})

\* the bytes Process p's child wrote that were read from the stream and that
\* no match of p has consumed are all in the buffer
NoByteLost(p) ==
    LET c == proc[p].own
        buf == fs[proc[p].Fd].buffer
        nread == child[c].n - Len(child[c].pty)
    IN  \A i \in (hw[p][c] + 1)..nread :
            \E k \in 1..Len(buf) : buf[k][1] = c /\ buf[k][2] = i

\* C11: the unmatched bytes kept never exceed the capacity, and no unmatched
\* byte is discarded to make room: a call that cannot keep what it reads
\* returns (FULLBUFFER, nil) instead.
C11_FullBufferNotDiscarded ==
    /\ \A fd \in Fds : Len(fs[fd].buffer) <= BufSiz
    /\ \A p \in ProcIds :
          (p <= nproc /\ proc[p].File = "open" /\ fdtab[proc[p].Fd] = proc[p].own)
              => NoByteLost(p)

\* the text t occurs verbatim, as consecutive characters, in s
Occurs(t, s) ==
    \E i \in 0..(Len(s) - Len(t)) : \A j \in 1..Len(t) : s[i + j] = t[j]
Sentinels == {ERROR, TIMEOUT, FULLBUFFER, EOF}

\* C12: a call with one Exact pattern returns the pattern's Value exactly when
\* the text occurs verbatim in the unconsumed output of the Process's own
\* child; when it does not occur the call returns a sentinel, not the Value.
C12_ExactIffVerbatim ==
    (Returned /\ Len(last.pats) = 1 /\ last.pats[1].Type = Exact) =>
        LET v == last.pats[1]
            there == Occurs(v.Pattern, Chars(last.buf))
        IN  /\ there <=> CodeIsValue(last.code, v.Value)
            /\ there => \A k \in (last.m[1] + 1)..last.m[2] :
                            last.buf[k][1] = proc[last.proc].own
            /\ ~there => last.code \in Sentinels

CodeIsOutcome ==
    Returned =>
        IF last.idx # 0
        THEN CodeIsValue(last.code, last.pats[last.idx].Value)
        ELSE last.code \in Sentinels
\* a call in flight that started with a positive timeout returns
CallReturns ==
    \A p \in ProcIds :
        (call[p].pc = "reading" /\ call[p].t0 > 0) ~> (call[p].pc = "idle")

C15_KillLeavesOutput ==
    [][/\ killed' # killed =>
             /\ UNCHANGED <<proc, fdtab, fs, hw, call>>
             /\ \A c \in Pids : child'[c].pty = child[c].pty
       /\ (last'.proc # 0 /\ last'.idx = 0 /\ last'.code = EOF) =>
             /\ AtEof(proc[last'.proc].Fd)
             /\ FirstMatching(last'.pats, Chars(last'.buf)) = 0]_vars

\* C15 witness: a call made after KillChild killed the Process's own child
\* matches what the child wrote before
C15_Witness ==
    /\ Matched
    /\ last.killedAtCall
    /\ proc[last.proc].Pid = proc[last.proc].own
    /\ child[proc[last.proc].own].st = "dead"
    /\ \A k \in (last.m[1] + 1)..last.m[2] : last.buf[k][1] = proc[last.proc].own

\* C16: the Pid of every Process a Spawn returned is the pid of the child
\* that Spawn created on the Process's Fd, so the process KillChild signals
\* is the Process's own child.
C16_PidIsOwnChild ==
    \A p \in ProcIds :
        p <= nproc =>
            /\ proc[p].Pid = proc[p].own
            /\ killed[p] => KillTarget(p) = proc[p].own

\* C17: a call on a Process reads and consumes only what the Process's own
\* child wrote: the buffer a call returns on holds no byte of another child,
\* and no match of the Process has consumed a byte of another child.
C17_OnlyOwnOutput ==
    /\ Returned =>
          \A k \in 1..Len(last.buf) : last.buf[k][1] = proc[last.proc].own
    /\ \A p \in ProcIds :
          p <= nproc => \A c \in Pids \ {proc[p].own} : hw[p][c] = 0

\* what the library holds for Process p after the end of its last match
Leftover(p) == Compact(fs[proc[p].Fd])

\* C18: after a match of Process p, what its child wrote after the matched
\* text and was read with it stays in the buffer while p makes no call, and
\* p's next call matches it without reading when one of its patterns
\* matches it.
C18_LeftoverKept ==
    [][\A p \in ProcIds :
         /\ (/\ p <= nproc
             /\ call[p].pc = "idle" /\ call'[p].pc = "idle" /\ last'.proc # p
             /\ proc[p].File = "open" /\ proc'[p].File = "open"
             /\ fs[proc[p].Fd].match_end > 0
             /\ hw[p][proc[p].own] > 0) =>
                \A k \in 1..Len(Leftover(p)) :
                    Leftover(p)[k][1] = proc[p].own =>
                        \E j \in 1..Len(Leftover(p)') : Leftover(p)'[j] = Leftover(p)[k]
         /\ (/\ call[p].pc = "idle" /\ call'[p].pc = "reading"
             /\ fs[proc[p].Fd].match_end > 0) =>
                FirstMatching(call'[p].pats, Chars(Leftover(p))) = 0]_vars

====
